---- MODULE Spec2Model ----
\* Model of the gdrive_sync uploader (package uploader): the dispatcher
\* (Run / initialUpload / watch), the detached upload tasks (upload,
\* waitForFileSizeToStabilize, sleep, doUpload) and the shared inProgress map
\* guarded by the mutex mu; the open-handle wait (waitForFileToClose,
\* fileIsOpen), which upload does not call; and the return of main after Run.
EXTENDS Integers, Sequences, FiniteSets, TLC

\* ---------------------------------------------------------------- bounds
\* Number of upload goroutines that can be started in one run.
MaxTasks == 2
\* Largest file size the writer can grow a file to.
MaxSize == 1
\* Largest number of size samples one observed stability wait may take.
MaxSamples == 17
\* Largest size the sampled file of an observed stability wait can have.
MaxDetSize == 2
\* Largest number of calls of fileIsOpen one observed open-handle wait may make.
MaxPolls == 6

\* ------------------------------------------------------ program constants
\* The comparison `c < 10` of waitForFileSizeToStabilize.
StableCount == 10
\* fsnotify.Create and fsnotify.Write, the bits of fsnotify.Op.
OpCreate == 1
OpWrite == 2

\* ------------------------------------------------------------------ paths
\* A path is a sequence of one-character strings.
Sep == "/"
InputDir == <<"s">>
DSStore == <<".", "D", "S", "_", "S", "t", "o", "r", "e">>
Hidden == <<".", "h">>
FileA == <<"a">>
\* ioutil.ReadDir returns the entries sorted by file name.
DirOrder == <<DSStore, Hidden, FileA>>
Join(d, n) == d \o <<Sep>> \o n
Names == {DirOrder[i] : i \in 1..Len(DirOrder)}
Paths == {Join(InputDir, n) : n \in Names}
NoPath == <<>>
\* The file another process writes and removes while the uploader runs; the
\* two junk files stay in the directory throughout.
Scanned == {Join(InputDir, FileA)}

ignoreFiles == {DSStore}

RECURSIVE StripTrailing(_)
StripTrailing(f) ==
  IF Len(f) > 1 /\ f[Len(f)] = Sep THEN StripTrailing(SubSeq(f, 1, Len(f) - 1)) ELSE f

LastSep(f) ==
  LET idx == {i \in 1..Len(f) : f[i] = Sep}
  IN  IF idx = {} THEN 0 ELSE CHOOSE i \in idx : \A j \in idx : j <= i

\* filepath.Base
Base(f) ==
  IF f = <<>> THEN <<".">>
  ELSE LET g == StripTrailing(f)
       IN  IF g = <<Sep>> THEN g ELSE SubSeq(g, LastSep(g) + 1, Len(g))

\* strings.HasPrefix
HasPrefix(b, pre) == Len(b) >= Len(pre) /\ SubSeq(b, 1, Len(pre)) = pre

\* shouldIgnore; the first definition drops the hidden-file rule.
shouldIgnoreNoDot(f) == Base(f) \in ignoreFiles
shouldIgnore(f) == Base(f) \in ignoreFiles \/ HasPrefix(Base(f), <<".">>)

\* event.Op&fsnotify.Write == fsnotify.Write; the first definition takes
\* every kind of event for a write.
HasWriteAny(op) == TRUE
HasWrite(op) == (op \div OpWrite) % 2 = 1

Ops == {OpCreate, OpWrite}

\* ------------------------------------------------------------------ state
TaskIds == 1..MaxTasks
NoFile == -1
Unlocked == 0
Watcher == -1
NoErr == "nil"
SrcErrs == {"E1"}

VARIABLES
  ctxDone,     \* ctx.Done() is closed
  mu,          \* u.mu: Unlocked, or the goroutine that locked it
  inProgress,  \* u.inProgress
  disk,        \* size of each file of the input directory, NoFile when absent
  task,        \* the upload goroutines
  watch,       \* the goroutine running Run
  events,      \* u.watcher.Events / u.watcher.Errors
  det,         \* one observed run of waitForFileSizeToStabilize
  probe        \* one observed run of waitForFileToClose

vars == <<ctxDone, mu, inProgress, disk, task, watch, events, det, probe>>

\* pc: where the goroutine stands in upload; f: its path; s, c: the locals of
\* waitForFileSizeToStabilize. The remaining fields record what the task has
\* done: stable (the detector returned nil), closed (waitForFileToClose
\* returned nil; upload never calls it), upTry / upOk (calls of doUpload, and
\* whether it returned nil), rmTry / rmOk (calls of os.Remove, and whether it
\* removed the file).
IdleTask ==
  [pc |-> "idle", f |-> NoPath, s |-> 0, c |-> 0,
   stable |-> FALSE, closed |-> FALSE, upTry |-> 0, upOk |-> FALSE,
   rmTry |-> 0, rmOk |-> FALSE]

\* s, c: the locals of waitForFileSizeToStabilize; n: samples taken; run: length
\* of the run of equal samples ending at the latest one; last: the latest sample.
InitDet == [s |-> 0, c |-> 0, n |-> 0, run |-> 0, last |-> NoFile, ret |-> "polling"]

\* One call of fileIsOpen as the host decides it: exec.LookPath fails
\* ("nolsof"); lsof runs and exits with status 0 ("exit0"); lsof exits with
\* another status or is killed ("exitErr"); the command cannot be run or its
\* output cannot be read ("otherErr"). out: what lsof wrote to its standard
\* output; errOut: what it wrote to its standard error.
ProbeOutcomes ==
  {[kind |-> "nolsof", out |-> "", errOut |-> ""],
   [kind |-> "otherErr", out |-> "", errOut |-> ""]}
  \cup [kind : {"exit0", "exitErr"}, out : {"", "p"}, errOut : {"", "w"}]

NoOutcome == [kind |-> "none", out |-> "", errOut |-> ""]

\* n: calls of fileIsOpen so far; opens: how many of them returned (true, nil);
\* last, res: the latest call and what it returned; pc, ret: where
\* waitForFileToClose stands and what it returned.
InitProbe ==
  [pc |-> "probe", n |-> 0, opens |-> 0, last |-> NoOutcome,
   res |-> [open |-> FALSE, err |-> NoErr], ret |-> "polling"]

Init ==
  /\ ctxDone = FALSE
  /\ mu = Unlocked
  /\ inProgress = [p \in Paths |-> FALSE]
  /\ disk = [p \in Paths |-> 0]
  /\ task = [t \in TaskIds |-> IdleTask]
  /\ watch = [pc |-> "run", files |-> <<>>, ev |-> NoPath, op |-> 0,
              result |-> "running", via |-> "none"]
  /\ events = [evClosed |-> FALSE, errClosed |-> FALSE, errBuf |-> <<>>, lastErr |-> NoErr]
  /\ det = InitDet
  /\ probe = InitProbe

\* ------------------------------------------------------- stability detector
\* `c = 0` of the else branch (the size differs from the previous sample).
CountOnChangeKeep(c) == c
CountOnChange(c) == 0

\* `c < 10`: the wait goes on; otherwise it returns nil.
BelowThresholdEarly(c) == c < StableCount - 1
BelowThreshold(c) == c < StableCount

\* One pass of the loop body after a successful os.Stat that reported size sz.
StabilizeStep(s, c, sz) ==
  IF s = sz
  THEN IF BelowThreshold(c)
       THEN [s |-> sz, c |-> c + 1, ret |-> "sleep"]
       ELSE [s |-> s, c |-> c, ret |-> "ok"]
  ELSE [s |-> sz, c |-> CountOnChange(c), ret |-> "sleep"]

\* ------------------------------------------------------------ the mutex
LockFreeNoWait == TRUE
LockFree == mu = Unlocked

\* `u.inProgress[f]` read under the lock by upload.
Claimed(p) == inProgress[p]

\* ------------------------------------------------------------ environment
Cancel ==
  /\ ~ctxDone
  /\ ctxDone' = TRUE
  /\ UNCHANGED <<mu, inProgress, disk, task, watch, events, det, probe>>

\* Another process creates the file or appends to it.
WriteFile(p) ==
  /\ disk[p] < MaxSize
  /\ disk' = [disk EXCEPT ![p] = IF disk[p] = NoFile THEN 0 ELSE disk[p] + 1]
  /\ UNCHANGED <<ctxDone, mu, inProgress, task, watch, events, det, probe>>

\* Another process removes the file.
RemoveFile(p) ==
  /\ disk[p] # NoFile
  /\ disk' = [disk EXCEPT ![p] = NoFile]
  /\ UNCHANGED <<ctxDone, mu, inProgress, task, watch, events, det, probe>>

\* The event source reports an error on its Errors channel. The source is
\* followed only while Run has not returned: nothing reads it afterwards.
SrcError(e) ==
  /\ watch.pc \notin {"returned", "exited"}
  /\ ~events.errClosed
  /\ events.errBuf = <<>>
  /\ events' = [events EXCEPT !.errBuf = <<e>>, !.lastErr = e]
  /\ UNCHANGED <<ctxDone, mu, inProgress, disk, task, watch, det, probe>>

SrcCloseErrors ==
  /\ watch.pc \notin {"returned", "exited"}
  /\ ~events.errClosed
  /\ events' = [events EXCEPT !.errClosed = TRUE]
  /\ UNCHANGED <<ctxDone, mu, inProgress, disk, task, watch, det, probe>>

SrcCloseEvents ==
  /\ watch.pc \notin {"returned", "exited"}
  /\ ~events.evClosed
  /\ events' = [events EXCEPT !.evClosed = TRUE]
  /\ UNCHANGED <<ctxDone, mu, inProgress, disk, task, watch, det, probe>>

\* ------------------------------------------------------------ upload tasks
\* `go u.upload(ctx, p)`: the next unused goroutine starts on p.
HasFree == \E t \in TaskIds : task[t].pc = "idle"
FreeId == CHOOSE t \in TaskIds : task[t].pc = "idle" /\ \A u \in TaskIds : task[u].pc = "idle" => t <= u
Spawn(p) == [task EXCEPT ![FreeId] = [IdleTask EXCEPT !.pc = "start", !.f = p]]

\* u.mu.Lock() at the top of upload.
TaskLock(t) ==
  /\ task[t].pc = "start"
  /\ LockFree
  /\ mu' = t
  /\ task' = [task EXCEPT ![t].pc = "locked"]
  /\ UNCHANGED <<ctxDone, inProgress, disk, watch, events, det, probe>>

\* Where upload stands after `return` inside `if u.inProgress[f]`: the
\* goroutine has ended, and no deferred function was registered yet. The first
\* definition runs the deferred release all the same.
AfterDuplicateRelease == "rlock"
AfterDuplicate == "done"

\* `if u.inProgress[f] { return }`: the mutex stays locked.
TaskDuplicate(t) ==
  /\ task[t].pc = "locked"
  /\ Claimed(task[t].f)
  /\ task' = [task EXCEPT ![t].pc = AfterDuplicate]
  /\ UNCHANGED <<ctxDone, mu, inProgress, disk, watch, events, det, probe>>

\* `u.inProgress[f] = true; u.mu.Unlock()`.
TaskClaim(t) ==
  /\ task[t].pc = "locked"
  /\ ~Claimed(task[t].f)
  /\ inProgress' = [inProgress EXCEPT ![task[t].f] = TRUE]
  /\ mu' = Unlocked
  /\ task' = [task EXCEPT ![t].pc = "stat"]
  /\ UNCHANGED <<ctxDone, disk, watch, events, det, probe>>

\* Where a task is about to take a size sample: on entry to the loop, or in
\* sleep with the ticker case of the select about to win. A sleep entered
\* before the cancellation may still take the ticker case when both channels
\* are ready; one entered after it ("sleepc") cannot.
AtSample(t) == task[t].pc \in {"stat", "sleep"}

\* Where upload stands after waitForFileSizeToStabilize returned the error of
\* os.Stat: it logs and returns, so only the deferred release is left. The
\* first definition keeps polling instead.
AfterStatErrRetry == "sleep"
AfterStatErr == "rlock"

\* os.Stat fails in waitForFileSizeToStabilize: the task logs and returns.
TaskStatFail(t) ==
  /\ AtSample(t)
  /\ disk[task[t].f] = NoFile
  /\ task' = [task EXCEPT ![t].pc = AfterStatErr, ![t].s = 0, ![t].c = 0]
  /\ UNCHANGED <<ctxDone, mu, inProgress, disk, watch, events, det, probe>>

\* One sample of waitForFileSizeToStabilize, up to the call of sleep.
TaskStat(t) ==
  /\ AtSample(t)
  /\ disk[task[t].f] # NoFile
  /\ LET r == StabilizeStep(task[t].s, task[t].c, disk[task[t].f])
     IN  task' = IF r.ret = "ok"
                 THEN [task EXCEPT ![t].pc = "upload", ![t].s = 0, ![t].c = 0,
                                   ![t].stable = TRUE]
                 ELSE [task EXCEPT ![t].pc = IF ctxDone THEN "sleepc" ELSE "sleep",
                                   ![t].s = r.s, ![t].c = r.c]
  /\ UNCHANGED <<ctxDone, mu, inProgress, disk, watch, events, det, probe>>

\* sleep: the ctx.Done() case of the select.
TaskSleepCancelled(t) ==
  /\ task[t].pc \in {"sleep", "sleepc"}
  /\ ctxDone
  /\ task' = [task EXCEPT ![t].pc = "rlock", ![t].s = 0, ![t].c = 0]
  /\ UNCHANGED <<ctxDone, mu, inProgress, disk, watch, events, det, probe>>

\* upload after doUpload: an error is logged and the task returns; otherwise
\* the task goes on to os.Remove.
AfterUploadAlways(ok) == "remove"
AfterUpload(ok) == IF ok THEN "remove" ELSE "rlock"

\* doUpload: os.Open fails, or the Drive call fails or succeeds.
TaskUpload(t) ==
  /\ task[t].pc = "upload"
  /\ \E ok \in BOOLEAN :
       /\ ok => disk[task[t].f] # NoFile
       /\ task' = [task EXCEPT ![t].pc = AfterUpload(ok),
                               ![t].upTry = @ + 1, ![t].upOk = ok]
  /\ UNCHANGED <<ctxDone, mu, inProgress, disk, watch, events, det, probe>>

\* upload after os.Remove: a failure is logged, and either way the function
\* is over. The first definition tries the removal again after a failure.
AfterRemoveRetry(ok) == IF ok THEN "rlock" ELSE "remove"
AfterRemove(ok) == "rlock"

\* os.Remove(f); a failure is logged.
TaskRemove(t) ==
  /\ task[t].pc = "remove"
  /\ task' = [task EXCEPT ![t].pc = AfterRemove(disk[task[t].f] # NoFile),
                          ![t].rmTry = @ + 1,
                          ![t].rmOk = (disk[task[t].f] # NoFile)]
  /\ disk' = [disk EXCEPT ![task[t].f] = NoFile]
  /\ UNCHANGED <<ctxDone, mu, inProgress, watch, events, det, probe>>

\* The deferred function: u.mu.Lock().
TaskReleaseLock(t) ==
  /\ task[t].pc = "rlock"
  /\ LockFree
  /\ mu' = t
  /\ task' = [task EXCEPT ![t].pc = "rlocked"]
  /\ UNCHANGED <<ctxDone, inProgress, disk, watch, events, det, probe>>

\* The deferred function: `u.inProgress[f] = false; u.mu.Unlock()`. The
\* goroutine has returned and its slot can serve a later `go u.upload`.
TaskRelease(t) ==
  /\ task[t].pc = "rlocked"
  /\ inProgress' = [inProgress EXCEPT ![task[t].f] = FALSE]
  /\ mu' = Unlocked
  /\ task' = [task EXCEPT ![t] = IdleTask]
  /\ UNCHANGED <<ctxDone, disk, watch, events, det, probe>>

TaskStep(t) ==
  \/ TaskLock(t)
  \/ TaskDuplicate(t)
  \/ TaskClaim(t)
  \/ TaskStatFail(t)
  \/ TaskStat(t)
  \/ TaskSleepCancelled(t)
  \/ TaskUpload(t)
  \/ TaskRemove(t)
  \/ TaskReleaseLock(t)
  \/ TaskRelease(t)

\* ---------------------------------------------------------- the dispatcher
Return(res, how) == [watch EXCEPT !.pc = "returned", !.result = res, !.via = how,
                                  !.files = <<>>, !.ev = NoPath, !.op = 0]

\* initialUpload: ioutil.ReadDir fails and Run returns the wrapped error.
RunReadDirFail ==
  /\ watch.pc = "run"
  /\ watch' = Return("readDirErr", "readdir")
  /\ UNCHANGED <<ctxDone, mu, inProgress, disk, task, events, det, probe>>

\* initialUpload: ioutil.ReadDir lists the directory.
RunReadDir ==
  /\ watch.pc = "run"
  /\ watch' = [watch EXCEPT !.pc = "sweep",
                            !.files = SelectSeq(DirOrder, LAMBDA n : disk[Join(InputDir, n)] # NoFile)]
  /\ UNCHANGED <<ctxDone, mu, inProgress, disk, task, events, det, probe>>

\* initialUpload: `case <-ctx.Done(): return ctx.Err()`.
SweepCancelled ==
  /\ watch.pc = "sweep"
  /\ watch.files # <<>>
  /\ ctxDone
  /\ watch' = Return("ctxErr", "sweep")
  /\ UNCHANGED <<ctxDone, mu, inProgress, disk, task, events, det, probe>>

\* initialUpload: `if shouldIgnore(f.Name()) { continue }`.
SweepIgnore ==
  /\ watch.pc = "sweep"
  /\ watch.files # <<>>
  /\ ~ctxDone
  /\ shouldIgnore(Head(watch.files))
  /\ watch' = [watch EXCEPT !.files = Tail(@)]
  /\ UNCHANGED <<ctxDone, mu, inProgress, disk, task, events, det, probe>>

\* initialUpload: `go u.upload(ctx, filepath.Join(u.inputDir, f.Name()))`.
SweepSpawn ==
  /\ watch.pc = "sweep"
  /\ watch.files # <<>>
  /\ ~ctxDone
  /\ ~shouldIgnore(Head(watch.files))
  /\ HasFree
  /\ task' = Spawn(Join(InputDir, Head(watch.files)))
  /\ watch' = [watch EXCEPT !.files = Tail(@)]
  /\ UNCHANGED <<ctxDone, mu, inProgress, disk, events, det, probe>>

\* initialUpload returns nil and Run calls watch.
SweepDone ==
  /\ watch.pc = "sweep"
  /\ watch.files = <<>>
  /\ watch' = [watch EXCEPT !.pc = "select"]
  /\ UNCHANGED <<ctxDone, mu, inProgress, disk, task, events, det, probe>>

\* An event the run can still afford: one that may start a goroutine is
\* delivered only while an unused goroutine is left.
Affordable(p, op) == HasFree \/ ~HasWrite(op) \/ shouldIgnore(p)

\* watch: `case event, ok := <-u.watcher.Events` with ok.
WatchEvent(p, op) ==
  /\ watch.pc = "select"
  /\ ~events.evClosed
  /\ Affordable(p, op)
  /\ watch' = [watch EXCEPT !.pc = "wlock", !.ev = p, !.op = op]
  /\ UNCHANGED <<ctxDone, mu, inProgress, disk, task, events, det, probe>>

\* watch: the Events channel is closed.
WatchEventsClosed ==
  /\ watch.pc = "select"
  /\ events.evClosed
  /\ watch' = Return(NoErr, "events")
  /\ UNCHANGED <<ctxDone, mu, inProgress, disk, task, events, det, probe>>

\* Where watch stands after `log.Printf("error: %s", err)`: at the top of its
\* loop again. The first definition returns the error instead.
AfterLoggedErrorReturn == Return(Head(events.errBuf), "errors")
AfterLoggedError == watch

\* watch: `case err, ok := <-u.watcher.Errors` with ok: the error is logged.
WatchError ==
  /\ watch.pc = "select"
  /\ events.errBuf # <<>>
  /\ events' = [events EXCEPT !.errBuf = <<>>]
  /\ watch' = AfterLoggedError
  /\ UNCHANGED <<ctxDone, mu, inProgress, disk, task, det, probe>>

\* The value a receive from the closed, drained Errors channel yields.
ClosedRecv == NoErr

\* watch: the Errors channel is closed: `return err`.
WatchErrorsClosed ==
  /\ watch.pc = "select"
  /\ events.errBuf = <<>>
  /\ events.errClosed
  /\ watch' = Return(ClosedRecv, "errors")
  /\ UNCHANGED <<ctxDone, mu, inProgress, disk, task, events, det, probe>>

\* watch: `case <-ctx.Done(): return ctx.Err()`.
WatchCancelled ==
  /\ watch.pc = "select"
  /\ ctxDone
  /\ watch' = Return("ctxErr", "cancel")
  /\ UNCHANGED <<ctxDone, mu, inProgress, disk, task, events, det, probe>>

\* watch: u.mu.Lock().
WatchLock ==
  /\ watch.pc = "wlock"
  /\ LockFree
  /\ mu' = Watcher
  /\ watch' = [watch EXCEPT !.pc = "wlocked"]
  /\ UNCHANGED <<ctxDone, inProgress, disk, task, events, det, probe>>

\* `inProgress || event.Op&fsnotify.Write != fsnotify.Write || shouldIgnore(event.Name)`
\* with inProgress the copy of u.inProgress[event.Name] taken under the lock.
Dropped == inProgress[watch.ev] \/ ~HasWrite(watch.op) \/ shouldIgnore(watch.ev)

\* `continue`, or the end of the loop body: the event is forgotten and the
\* dispatcher is back at its select. The first definition keeps the event and
\* handles it again.
NextEventRequeue == [watch EXCEPT !.pc = "wlock"]
NextEvent == [watch EXCEPT !.pc = "select", !.ev = NoPath, !.op = 0]

\* watch: the copy is taken, the mutex unlocked and the event dropped by the filter.
WatchDrop ==
  /\ watch.pc = "wlocked"
  /\ Dropped
  /\ mu' = Unlocked
  /\ watch' = NextEvent
  /\ UNCHANGED <<ctxDone, inProgress, disk, task, events, det, probe>>

\* watch: the event passes the filter and os.Stat reports that the file is gone.
WatchGone ==
  /\ watch.pc = "wlocked"
  /\ ~Dropped
  /\ disk[watch.ev] = NoFile
  /\ mu' = Unlocked
  /\ watch' = NextEvent
  /\ UNCHANGED <<ctxDone, inProgress, disk, task, events, det, probe>>

\* watch: the event passes the filter: `go u.upload(ctx, event.Name)`.
WatchSpawn ==
  /\ watch.pc = "wlocked"
  /\ ~Dropped
  /\ disk[watch.ev] # NoFile
  /\ HasFree
  /\ mu' = Unlocked
  /\ task' = Spawn(watch.ev)
  /\ watch' = NextEvent
  /\ UNCHANGED <<ctxDone, inProgress, disk, events, det, probe>>

WatchStep ==
  \/ RunReadDirFail
  \/ RunReadDir
  \/ SweepCancelled
  \/ SweepIgnore
  \/ SweepSpawn
  \/ SweepDone
  \/ \E p \in Paths, op \in Ops : WatchEvent(p, op)
  \/ WatchEventsClosed
  \/ WatchError
  \/ WatchErrorsClosed
  \/ WatchCancelled
  \/ WatchLock
  \/ WatchDrop
  \/ WatchGone
  \/ WatchSpawn

EnvStep ==
  \/ Cancel
  \/ \E p \in Scanned : WriteFile(p)
  \/ \E p \in Scanned : RemoveFile(p)
  \/ \E e \in SrcErrs : SrcError(e)
  \/ SrcCloseErrors
  \/ SrcCloseEvents

Next ==
  \/ EnvStep
  \/ WatchStep
  \/ \E t \in TaskIds : TaskStep(t)

Spec == Init /\ [][Next]_vars

\* Every goroutine of the program is scheduled again and again, sync.Mutex
\* hands the lock to each waiter in turn, and a select that is ready again and
\* again takes each ready case in the end.
WatchInternal ==
  \/ RunReadDir
  \/ SweepCancelled
  \/ SweepIgnore
  \/ SweepSpawn
  \/ SweepDone
  \/ WatchEventsClosed
  \/ WatchError
  \/ WatchErrorsClosed
  \/ WatchDrop
  \/ WatchGone
  \/ WatchSpawn

Fairness ==
  /\ \A t \in TaskIds : WF_vars(TaskStep(t))
  /\ \A t \in TaskIds : SF_vars(TaskLock(t) \/ TaskReleaseLock(t))
  /\ WF_vars(WatchInternal)
  /\ SF_vars(WatchLock)
  /\ SF_vars(WatchCancelled)

FairSpec == Spec /\ Fairness

\* ------------------------------------------------- the program around Run
\* main: u.Run has returned; main calls log.Fatalf on an error and returns
\* otherwise. Either way the process exits, and every goroutine still running
\* ends where it stands.
MainReturn ==
  /\ watch.pc = "returned"
  /\ watch' = [watch EXCEPT !.pc = "exited"]
  /\ task' = [t \in TaskIds |->
                IF task[t].pc \in {"idle", "done"}
                THEN task[t]
                ELSE [task[t] EXCEPT !.pc = "killed"]]
  /\ UNCHANGED <<ctxDone, mu, inProgress, disk, events, det, probe>>

ProgramNext ==
  \/ Next
  \/ MainReturn

ProgramSpec == Init /\ [][ProgramNext]_vars

\* ---------------------------------------- one observed stability wait
DetSizes == 0..MaxDetSize

\* One pass of the loop of waitForFileSizeToStabilize on a file of size sz.
DetSample(sz) ==
  /\ det.ret = "polling"
  /\ det.n < MaxSamples
  /\ LET r == StabilizeStep(det.s, det.c, sz)
     IN  det' = [s |-> r.s, c |-> r.c, n |-> det.n + 1,
                 run |-> IF det.n > 0 /\ sz = det.last THEN det.run + 1 ELSE 1,
                 last |-> sz,
                 ret |-> IF r.ret = "ok" THEN "ok" ELSE "polling"]
  /\ UNCHANGED <<ctxDone, mu, inProgress, disk, task, watch, events, probe>>

\* os.Stat fails: the error is returned at once.
DetStatFail ==
  /\ det.ret = "polling"
  /\ det' = [det EXCEPT !.ret = "statErr"]
  /\ UNCHANGED <<ctxDone, mu, inProgress, disk, task, watch, events, probe>>

\* sleep returns ctx.Err(): the error is returned.
DetCancelled ==
  /\ det.ret = "polling"
  /\ det.n > 0
  /\ det' = [det EXCEPT !.ret = "ctxErr"]
  /\ UNCHANGED <<ctxDone, mu, inProgress, disk, task, watch, events, probe>>

DetNext ==
  \/ \E sz \in DetSizes : DetSample(sz)
  \/ DetStatFail
  \/ DetCancelled

DetectorSpec == Init /\ [][DetNext]_vars

\* ------------------------------------------ one observed open-handle wait
\* fileIsOpen on the outcome o; the first definition takes a host without
\* lsof for a file that is not open.
fileIsOpenLenient(o) ==
  IF o.kind = "exit0"
  THEN [open |-> TRUE, err |-> NoErr]
  ELSE IF o.kind = "nolsof" \/ (o.kind = "exitErr" /\ o.errOut = "")
       THEN [open |-> FALSE, err |-> NoErr]
       ELSE [open |-> FALSE, err |-> o.kind]

fileIsOpen(o) ==
  IF o.kind = "nolsof"
  THEN [open |-> FALSE, err |-> "nolsof"]
  ELSE IF o.kind = "exit0"
       THEN [open |-> TRUE, err |-> NoErr]
       ELSE IF o.kind = "exitErr"
            THEN IF o.errOut = ""
                 THEN [open |-> FALSE, err |-> NoErr]
                 ELSE [open |-> FALSE, err |-> "exitErr"]
            ELSE [open |-> FALSE, err |-> "otherErr"]

\* waitForFileToClose: one call of fileIsOpen and the two tests that follow.
ProbePoll(o) ==
  /\ probe.pc = "probe"
  /\ probe.n < MaxPolls
  /\ LET r == fileIsOpen(o)
     IN  probe' = [pc |-> IF r.err = NoErr /\ r.open THEN "sleep" ELSE "returned",
                   n |-> probe.n + 1,
                   opens |-> IF r.err = NoErr /\ r.open THEN probe.opens + 1 ELSE probe.opens,
                   last |-> o,
                   res |-> r,
                   ret |-> IF r.err # NoErr THEN r.err
                           ELSE IF ~r.open THEN "nil" ELSE "polling"]
  /\ UNCHANGED <<ctxDone, mu, inProgress, disk, task, watch, events, det>>

\* sleep: the timer case of the select.
ProbeSleepDone ==
  /\ probe.pc = "sleep"
  /\ probe' = [probe EXCEPT !.pc = "probe"]
  /\ UNCHANGED <<ctxDone, mu, inProgress, disk, task, watch, events, det>>

\* sleep: the ctx.Done() case of the select.
ProbeSleepCancelled ==
  /\ probe.pc = "sleep"
  /\ ctxDone
  /\ probe' = [probe EXCEPT !.pc = "returned", !.ret = "ctxErr"]
  /\ UNCHANGED <<ctxDone, mu, inProgress, disk, task, watch, events, det>>

ProbeNext ==
  \/ \E o \in ProbeOutcomes : ProbePoll(o)
  \/ ProbeSleepDone
  \/ ProbeSleepCancelled
  \/ Cancel

ProbeSpec == Init /\ [][ProbeNext]_vars

\* -------------------------------------------------------------- properties
\* The task t is between its claim of p and its release of p.
OwnerPcs == {"stat", "sleep", "sleepc", "upload", "remove", "rlock", "rlocked"}
Owns(t, p) == task[t].f = p /\ task[t].pc \in OwnerPcs
IgnoredPaths == {Join(InputDir, DSStore), Join(InputDir, Hidden)}

\* C1: for every path at most one task is between its claim and its release,
\* the path is marked in inProgress for as long as a task owns it, and a task
\* that is checking or setting the flag holds the mutex.
C1_AtMostOneOwner ==
  /\ \A p \in Paths : Cardinality({t \in TaskIds : Owns(t, p)}) <= 1
  /\ \A p \in Paths : (\E t \in TaskIds : Owns(t, p)) => inProgress[p]
  /\ \A t \in TaskIds : task[t].pc = "locked" => mu = t

\* C1 witness: a task owns a path while a second task for the same path has
\* run its check and returned.
C1_Witness ==
  \E t, u \in TaskIds :
    /\ t # u
    /\ Owns(t, task[u].f)
    /\ task[u].pc = "done"

\* C2: a task that has claimed a path and leaves upload, whichever way, ends
\* by marking the path unclaimed: the release it owes is always carried out.
C2_ReleaseAlways ==
  \A t \in TaskIds : (task[t].pc = "rlock") ~> (task[t].pc = "idle")

\* C3: a task calls doUpload only after the stability detector returned nil
\* and, after that, the open-handle probe reported the file closed.
C3_UploadAfterProbe ==
  \A t \in TaskIds :
    (task[t].pc = "upload" \/ task[t].upTry > 0) => (task[t].stable /\ task[t].closed)

\* C4: the mutex is free, or held by the dispatcher inside its read of the
\* map, or by a task inside its check-and-set or its clear; never by a task
\* that is polling, uploading or has returned.
C4_LockHeldBriefly ==
  \/ mu = Unlocked
  \/ mu = Watcher /\ watch.pc = "wlocked"
  \/ mu \in TaskIds /\ task[mu].pc \in {"locked", "rlocked"}

\* C5: once the run is cancelled, the dispatcher returns and every upload
\* task returns; nothing hangs.
C5_CancelUnwinds ==
  ctxDone ~> (watch.pc = "returned" /\ \A t \in TaskIds : task[t].pc \in {"idle", "done"})

\* C6: watch returns nil when the Events channel is closed, the error the
\* source reported when the Errors channel is closed, and ctx.Err() when the
\* run is cancelled.
C6_RunResult ==
  (watch.pc = "returned" /\ watch.via \in {"events", "errors", "cancel"}) =>
    /\ watch.via = "events" => watch.result = NoErr
    /\ watch.via = "errors" => watch.result = events.lastErr
    /\ watch.via = "cancel" => watch.result = "ctxErr"

C8_ResetOnChange ==
  /\ (det.n > 1 /\ det.run = 1 /\ det.ret = "polling") => det.c = 0
  /\ (det.n = 1 /\ det.last # 0 /\ det.ret = "polling") => det.c = 0
  /\ (det.n > 0 /\ det.ret = "polling") => det.s = det.last
  /\ det.c <= det.run
  /\ det.ret = "ok" => det.run - 1 >= StableCount

\* C8 witness: the size stalled, changed, and the file was declared stable later.
C8_Witness == det.ret = "ok" /\ det.n >= det.run + 2

\* C9: a task calls os.Remove only after its doUpload returned nil, and at
\* most once; a task whose stabilization or upload failed never calls it.
C9_DeleteAfterUpload ==
  \A t \in TaskIds :
    /\ task[t].rmTry <= 1
    /\ task[t].upTry <= 1
    /\ (task[t].pc = "remove" \/ task[t].rmTry > 0) => (task[t].stable /\ task[t].upOk)
    /\ task[t].rmOk => task[t].rmTry = 1

\* C9 witness: a task has removed the file it uploaded.
C9_Witness == \E t \in TaskIds : task[t].rmOk /\ disk[task[t].f] = NoFile

\* C10: no upload task is ever started for .DS_Store or for a hidden file.
C10_IgnoredNeverScheduled == \A t \in TaskIds : task[t].f \notin IgnoredPaths

\* C10 witness: the sweep has passed the junk files and started a task, and a
\* write event for a junk file is being handled while a goroutine is free.
C10_Witness ==
  /\ watch.pc = "wlocked"
  /\ watch.ev \in IgnoredPaths
  /\ HasWrite(watch.op)
  /\ HasFree
  /\ \E t \in TaskIds : task[t].pc # "idle"

\* C11: a task whose os.Stat fails during the stability wait leaves the wait
\* at once for its deferred release, having called neither doUpload nor
\* os.Remove and having declared nothing stable; it touches no file, and from
\* there it only takes the mutex, clears its flag and returns.
C11_StatFailEndsTask ==
  [][\A t \in TaskIds :
       /\ (task[t].pc \in {"stat", "sleep"} /\ disk[task[t].f] = NoFile /\ task'[t] # task[t]) =>
            /\ task'[t].pc = "rlock"
            /\ task'[t].upTry = 0 /\ task'[t].rmTry = 0
            /\ ~task'[t].stable
            /\ disk' = disk
       /\ (task[t].pc = "rlock" /\ task'[t] # task[t]) =>
            (task'[t] = [task[t] EXCEPT !.pc = "rlocked"] /\ disk' = disk)
       /\ (task[t].pc = "rlocked" /\ task'[t] # task[t]) =>
            (task'[t].pc = "idle" /\ disk' = disk)]_vars

\* C11 witness: with the run not cancelled, a task has left the stability wait
\* on a file that is gone and stands before its release.
C11_Witness ==
  \E t \in TaskIds :
    /\ task[t].pc = "rlock"
    /\ ~task[t].stable
    /\ ~ctxDone
    /\ disk[task[t].f] = NoFile

\* C12: what the tasks for one path do never stops the dispatcher from
\* handling an event for another path: when the dispatcher waits for the mutex
\* with such an event in hand and a task for the first path holds the mutex,
\* that task is inside its check-and-set or its clear and will unlock.
C12_NoCrossBlocking ==
  \A t \in TaskIds :
    (watch.pc = "wlock" /\ watch.ev # task[t].f /\ mu = t) =>
      task[t].pc \in {"locked", "rlocked"}

\* C13: a task that finds its path claimed returns in that very step: the
\* step changes neither inProgress nor any file, the task has called neither
\* os.Stat nor doUpload nor os.Remove, and it never does anything afterwards
\* (so it never clears the owner's flag).
C13_DuplicateAborts ==
  [][\A t \in TaskIds :
       /\ (task[t].pc = "locked" /\ inProgress[task[t].f] /\ task'[t] # task[t]) =>
            /\ task'[t] = [task[t] EXCEPT !.pc = "done"]
            /\ task'[t].upTry = 0 /\ task'[t].rmTry = 0
            /\ ~task'[t].stable /\ task'[t].s = 0 /\ task'[t].c = 0
            /\ inProgress' = inProgress
            /\ disk' = disk
       /\ task[t].pc = "done" => task'[t] = task[t]]_vars

\* C13 witness: a task has returned from its check of a claimed path; the
\* path is still claimed and the file is still there.
C13_Witness ==
  \E t \in TaskIds :
    /\ task[t].pc = "done"
    /\ inProgress[task[t].f]
    /\ disk[task[t].f] # NoFile

\* C14: the dispatcher, done with an event, has started a goroutine for the
\* event's path exactly when the event carries the Write bit, the path is not
\* ignored, the path was not claimed when the map was read and the file
\* exists; whether it started one or dropped the event, inProgress is
\* unchanged and the dispatcher is back at its select, still running.
C14_ScheduleIff ==
  [][(watch.pc = "wlocked" /\ watch' # watch) =>
       LET ok == /\ watch.op \in {OpWrite, OpWrite + OpCreate}
                 /\ watch.ev \notin IgnoredPaths
                 /\ ~inProgress[watch.ev]
                 /\ disk[watch.ev] # NoFile
       IN  /\ watch'.pc = "select"
           /\ watch'.result = "running"
           /\ inProgress' = inProgress
           /\ ok => \E t \in TaskIds :
                      /\ task[t].pc = "idle"
                      /\ task' = [task EXCEPT ![t] = [IdleTask EXCEPT !.pc = "start", !.f = watch.ev]]
           /\ ~ok => task' = task]_vars

\* C14 witness: the dispatcher is back at its select and two goroutines are
\* running; the sweep starts one at most, so an event started the other.
C14_Witness ==
  /\ watch.pc = "select"
  /\ Cardinality({t \in TaskIds : task[t].pc # "idle"}) >= 2

\* C15: a task calls doUpload once at most and os.Remove once at most, and a
\* failure ends it: when the stability wait, doUpload or os.Remove fails, the
\* task stands before its deferred release, and from there it only takes the
\* mutex, clears its flag and returns, touching no file and calling nothing.
C15_FailureIsTerminal ==
  [][\A t \in TaskIds :
       /\ (task[t].pc \in {"stat", "sleep", "sleepc"} /\ task'[t] # task[t]) =>
            \/ task'[t].pc \in {"sleep", "sleepc"}
            \/ task'[t].pc = "upload" /\ task'[t].stable
            \/ task'[t].pc = "rlock" /\ ~task'[t].stable
       /\ (task[t].pc = "upload" /\ task'[t] # task[t]) =>
            /\ task[t].upTry = 0 /\ task'[t].upTry = 1
            /\ task'[t].pc = IF task'[t].upOk THEN "remove" ELSE "rlock"
            /\ disk' = disk
       /\ (task[t].pc = "remove" /\ task'[t] # task[t]) =>
            /\ task[t].rmTry = 0 /\ task'[t].rmTry = 1
            /\ task'[t].upTry = 1
            /\ task'[t].pc = "rlock"
       /\ (task[t].pc = "rlock" /\ task'[t] # task[t]) =>
            (task'[t] = [task[t] EXCEPT !.pc = "rlocked"] /\ disk' = disk)
       /\ (task[t].pc = "rlocked" /\ task'[t] # task[t]) =>
            (task'[t] = IdleTask /\ disk' = disk)]_vars

\* C15 witness: os.Remove failed (another process had removed the uploaded
\* file) and the task stands before its release, after one doUpload and one
\* os.Remove.
C15_Witness ==
  \E t \in TaskIds :
    /\ task[t].pc = "rlock"
    /\ task[t].upTry = 1 /\ task[t].upOk
    /\ task[t].rmTry = 1 /\ ~task[t].rmOk

\* C16: an event for a claimed path is dropped and leaves no trace: no task is
\* started and the dispatcher keeps nothing of it; the release of a path
\* starts nothing either, it only clears the flag and ends the task. An event
\* handled while the path is unclaimed and the file exists starts a goroutine
\* that carries nothing over from an earlier one, and a goroutine that runs
\* its check on an unclaimed path claims it.
C16_DroppedNotQueued ==
  [][/\ (watch.pc = "wlocked" /\ inProgress[watch.ev] /\ watch' # watch) =>
          /\ task' = task
          /\ inProgress' = inProgress
          /\ watch' = [watch EXCEPT !.pc = "select", !.ev = NoPath, !.op = 0]
     /\ \A t \in TaskIds :
          (task[t].pc = "rlocked" /\ task'[t] # task[t]) =>
            /\ ~inProgress'[task[t].f]
            /\ task'[t] = IdleTask
            /\ \A u \in TaskIds \ {t} : task'[u] = task[u]
            /\ watch' = watch
     /\ (/\ watch.pc = "wlocked"
         /\ watch.op \in {OpWrite, OpWrite + OpCreate}
         /\ watch.ev \notin IgnoredPaths
         /\ ~inProgress[watch.ev]
         /\ disk[watch.ev] # NoFile
         /\ watch' # watch) =>
          \E t \in TaskIds :
            /\ task[t].pc = "idle"
            /\ task'[t] = [IdleTask EXCEPT !.pc = "start", !.f = watch.ev]
     /\ \A t \in TaskIds :
          (task[t].pc = "locked" /\ ~inProgress[task[t].f] /\ task'[t] # task[t]) =>
            /\ task'[t].pc = "stat"
            /\ inProgress'[task[t].f]]_vars

\* C16 witness: a goroutine has released the path and returned (its slot is
\* unused again while a later one is taken), and a write event for the path,
\* unclaimed and with its file present, is being handled.
C16_Witness ==
  /\ watch.pc = "wlocked"
  /\ HasWrite(watch.op)
  /\ watch.ev \notin IgnoredPaths
  /\ ~inProgress[watch.ev]
  /\ disk[watch.ev] # NoFile
  /\ \E t, u \in TaskIds : t < u /\ task[t].pc = "idle" /\ task[u].pc # "idle"

\* C17: when Run has returned because the Events channel was closed, and the
\* run was not cancelled, no goroutine that was still at work is ended before
\* its release.
C17_TasksOutliveDispatcher ==
  (watch.via = "events" /\ ~ctxDone) => \A t \in TaskIds : task[t].pc # "killed"

\* C18: fileIsOpen reports a file open when lsof succeeded and wrote
\* something, not open (and no error) when lsof failed and wrote nothing to
\* its standard error, and an error, never "not open", on every other
\* failure, a host without lsof included. waitForFileToClose goes on while
\* the calls report the file open; it returns nil at the first call that
\* reports it not open, the error of the first call that fails, and the
\* cancellation error when the run is cancelled between two calls.
C18_ProbeOutcome ==
  /\ probe.n > 0 =>
       /\ (probe.last.kind = "exit0" /\ probe.last.out # "") =>
            (probe.res.open /\ probe.res.err = NoErr)
       /\ (probe.last.kind = "exitErr" /\ probe.last.errOut = "") =>
            (~probe.res.open /\ probe.res.err = NoErr)
       /\ (probe.last.kind \in {"nolsof", "otherErr"}
             \/ (probe.last.kind = "exitErr" /\ probe.last.errOut # "")) =>
            /\ probe.res.err # NoErr
            /\ probe.ret = probe.res.err
  /\ probe.ret = "polling" => probe.opens = probe.n
  /\ probe.ret = "nil" =>
       /\ probe.opens = probe.n - 1
       /\ ~probe.res.open /\ probe.res.err = NoErr
  /\ probe.ret = "ctxErr" => (ctxDone /\ probe.opens = probe.n /\ probe.n > 0)
  /\ probe.ret \notin {"polling", "nil", "ctxErr"} =>
       /\ probe.opens = probe.n - 1
       /\ probe.ret = probe.res.err
       /\ probe.res.err # NoErr

\* C18 witness: after calls that reported the file open, a call on a host
\* where lsof cannot be found any more ended the wait with that error.
C18_Witness ==
  /\ probe.n >= 2
  /\ probe.last.kind = "nolsof"
  /\ probe.pc = "returned"
  /\ probe.ret = "nolsof"

\* C19: the first sample of a stability wait only sets the baseline, so the
\* counter still stands at zero after it, and a file that never changes is
\* declared stable at the same sample whatever its size.
C19_FirstSampleIsBaseline ==
  /\ (det.n = 1 /\ det.ret = "polling") => det.c = 0
  /\ (det.ret = "ok" /\ det.run = det.n) => det.n = StableCount + 2

\* C20: the step in which the dispatcher takes an error from the open Errors
\* channel changes nothing but the channel: the dispatcher stays at its
\* select, still running, no goroutine is started or ended, inProgress and
\* the mutex are as before, and the run is not cancelled by it.
C20_ErrorIsLogged ==
  [][(watch.pc = "select" /\ events.errBuf # <<>> /\ events'.errBuf = <<>>) =>
       /\ watch' = watch
       /\ watch'.result = "running"
       /\ task' = task
       /\ inProgress' = inProgress
       /\ mu' = mu
       /\ ctxDone' = ctxDone
       /\ disk' = disk]_vars

\* C20 witness: the source reported an error, the dispatcher took it from the
\* Errors channel, still open, and is now handling a later event.
C20_Witness ==
  /\ watch.pc = "wlocked"
  /\ events.lastErr \in SrcErrs
  /\ events.errBuf = <<>>
  /\ ~events.errClosed

====
